---------------------------- MODULE Spec2Model ----------------------------
(***************************************************************************)
(* A model of imgmatch.py: ImageDescriptor (image loading and descriptor   *)
(* extraction), DatabaseBuilder.build and the Matcher.match generator.     *)
(*                                                                         *)
(* Modelling decisions.                                                    *)
(*  - A file name is a sequence of one-character strings, so that          *)
(*    os.path.splitext and the test file[0] != '_' are computed, not       *)
(*    assumed.                                                             *)
(*  - A descriptor row (128 float32 in the source) is one coordinate of a  *)
(*    grid 0..MaxCoord; the distance knn.find_nearest reports for k = 1 is *)
(*    the squared difference to the closest trained sample.  Scores and    *)
(*    thresholds are integers in the same unit.                            *)
(*  - A folder is the sequence os.walk lists it in (flat, unique names).   *)
(*  - One call of build, and one next() on the generator match returns,    *)
(*    are one step each: the program is single-threaded.                   *)
(*  - Python 2 semantics (cv2.KNearest is OpenCV 2.4 API): round() rounds  *)
(*    halves away from zero.                                               *)
(***************************************************************************)
EXTENDS Integers, Sequences, FiniteSets, TLC

(***************************************************************************)
(* Bounds of the model.                                                    *)
(***************************************************************************)
\* largest coordinate of a descriptor row
MaxCoord == 1
\* most rows of a descriptor collection in the scoring specification
MaxLen == 2
\* most rows of a collection in the folder-level specification
MaxRows == 1
\* largest distanceThreshold
MaxThreshold == 2
\* largest height and width of an image file
MaxSide == 4
\* largest ImageDescriptor.size in the loading specification
MaxSize == 4

\* ImageDescriptor.__init__: size=300
DefaultSize == 300

VARIABLES
    inputFolder,        \* DatabaseBuilder.inputFolder: the file names os.walk lists
    dbfolder,           \* outputFolder / Matcher.dbfolder: listing of [name, readable, rows]
    query,              \* the image file at imgpath: [ok, h, w, kp]
    size,               \* ImageDescriptor.size
    distanceThreshold,  \* Matcher.distanceThreshold
    buildStatus,        \* how the last call of build ended: "none", "returned", "NameError"
    mpc,                \* the generator: "none", "created", "suspended", "done", "error"
    merr,               \* the exception that ended the generator ("" when none)
    mfile,              \* index in dbfolder of the file the generator last yielded for
    knn,                \* samples the kNN was trained on (the query's descriptors)
    results,            \* the (file, score) pairs yielded so far
    buildBeforeMatch,   \* history: a build had ended when match was called
    outBefore,          \* history: the output folder when build was last called
    descriptors,        \* _match: its argument, one persisted collection
    h,                  \* _match: rows already visited by the for loop
    score,              \* _match: the accumulator
    spc,                \* _match: "loop" or "returned"
    img,                \* _load: shape (rows, cols) of the image returned, <<>> if none
    lpc                 \* _load: "none", "loaded", "AttributeError", "cv2.error"

vars == <<inputFolder, dbfolder, query, size, distanceThreshold, buildStatus,
          mpc, merr, mfile, knn, results, buildBeforeMatch, outBefore,
          descriptors, h, score, spc, img, lpc>>

(***************************************************************************)
(* File names.                                                             *)
(***************************************************************************)
Str_a_png    == <<"a", ".", "p", "n", "g">>
Str_b_png    == <<"b", ".", "p", "n", "g">>
Str_skip_png == <<"_", "s", "k", "i", "p", ".", "p", "n", "g">>
Str_c_txt    == <<"c", ".", "t", "x", "t">>
Str_d_PNG    == <<"d", ".", "P", "N", "G">>
Str_a_npy    == <<"a", ".", "n", "p", "y">>
Str_b_npy    == <<"b", ".", "n", "p", "y">>
Str_dot_npy  == <<".", "n", "p", "y">>
Ext_npy      == <<".", "n", "p", "y">>

\* ImageDescriptor.SUPPORTED_EXTS
SUPPORTED_EXTS ==
    { <<".", "b", "m", "p">>, <<".", "d", "i", "b">>, <<".", "j", "p", "e", "g">>,
      <<".", "j", "p", "g">>, <<".", "j", "p", "e">>, <<".", "j", "p", "2">>,
      <<".", "p", "n", "g">>, <<".", "p", "b", "m">>, <<".", "p", "g", "m">>,
      <<".", "p", "p", "m">>, <<".", "s", "r">>, <<".", "r", "a", "s">>,
      <<".", "t", "i", "f", "f">>, <<".", "t", "i", "f">> }

MaxOf(S) == CHOOSE x \in S : \A y \in S : y <= x
MinOf(S) == CHOOSE x \in S : \A y \in S : x <= y

\* os.path.splitext(file)[1] for a name without directory separators: the
\* text from the last dot on, unless only dots precede that dot.
splitextExt(file) ==
    LET dots == {i \in 1..Len(file) : file[i] = "."}
    IN  IF dots = {} THEN <<>>
        ELSE LET dotIndex == MaxOf(dots)
             IN  IF \E i \in 1..(dotIndex - 1) : file[i] # "."
                 THEN SubSeq(file, dotIndex, Len(file))
                 ELSE <<>>

(***************************************************************************)
(* ImageDescriptor.                                                        *)
(***************************************************************************)
\* int(round(n / d)) for n >= 0, d > 0: halves round away from zero
RoundDiv(n, d) == (2 * n + d) \div (2 * d)

\* newsize of _load: (round(shape[0] * factor), round(shape[1] * factor))
\* with factor = size / max(shape[0], shape[1]), shape = (rows, cols)
newsize(image, sz) ==
    LET longest == IF image.h >= image.w THEN image.h ELSE image.w
    IN  <<RoundDiv(image.h * sz, longest), RoundDiv(image.w * sz, longest)>>

\* cv2.resize(img, dsize): dsize is (width, height); the result has
\* dsize[1] rows and dsize[0] columns
resize(dsize) == <<dsize[2], dsize[1]>>

\* load without the failure of img.shape on None: a missing file passes for
\* an image
loadUnchecked(image, sz) ==
    [status |-> "loaded", shape |-> resize(newsize(image, sz))]

\* _load: cv2.imread gives None for a missing or undecodable file and
\* img.shape then raises; cv2.resize raises for an empty target size;
\* cvtColor keeps the shape.
load(image, sz) ==
    IF ~image.ok THEN [status |-> "AttributeError", shape |-> <<>>]
    ELSE LET ns == newsize(image, sz)
         IN  IF ns[1] = 0 \/ ns[2] = 0
             THEN [status |-> "cv2.error", shape |-> <<>>]
             ELSE [status |-> "loaded", shape |-> resize(ns)]

\* getDescriptors: the rows SURF computes for the loaded image (image.kp,
\* empty when no keypoint is detected), or the error of _load
getDescriptors(image, sz) ==
    LET l == load(image, sz)
    IN  IF l.status = "loaded"
        THEN [status |-> "ok", descriptors |-> image.kp]
        ELSE [status |-> l.status, descriptors |-> <<>>]


(***************************************************************************)
(* DatabaseBuilder.                                                        *)
(***************************************************************************)
\* the test of build's if: file[0] != '_' and ext in SUPPORTED_EXTS
eligible(file) == file[1] # "_" /\ splitextExt(file) \in SUPPORTED_EXTS

\* build's loop from the i-th file of the listing on.  The first eligible
\* file ends it: getDescriptors(path) reads the name path, which nothing
\* binds (inPath is what was assigned), so evaluating the argument raises
\* NameError before getDescriptors or np.save is called.  db is the output
\* folder, which the loop has not written to when it ends either way.
RECURSIVE buildLoop(_, _, _)
buildLoop(files, i, db) ==
    IF i > Len(files) THEN [status |-> "returned", db |-> db]
    ELSE IF eligible(files[i]) THEN [status |-> "NameError", db |-> db]
    ELSE buildLoop(files, i + 1, db)

\* build that empties the output folder before it walks the input folder
buildCleaning(files, db) == buildLoop(files, 1, <<>>)

\* DatabaseBuilder.build()
build(files, db) == buildLoop(files, 1, db)

(***************************************************************************)
(* Matcher.                                                                *)
(***************************************************************************)
\* _getKnn: with no descriptor (compute() gave None or an empty array)
\* len(descriptors) or knn.train raises; otherwise the kNN holds the rows
getKnn(descs) ==
    IF Len(descs) = 0 THEN [status |-> "error", samples |-> <<>>]
    ELSE [status |-> "ok", samples |-> descs]

\* dists[0][0] of knn.find_nearest(des, 1): the squared distance from des
\* to the nearest trained sample
findNearestDist(samples, des) ==
    MinOf({(samples[i] - des) * (samples[i] - des) : i \in 1..Len(samples)})

\* the loop body without its test of dist against the threshold
accumulateUngated(sc, dist, threshold) == sc + (threshold - dist)

\* the body of _match's loop once dist is known
accumulate(sc, dist, threshold) ==
    IF dist < threshold THEN sc + (threshold - dist) ELSE sc

\* _match's for loop from row i on, sc being the score so far
RECURSIVE matchLoop(_, _, _, _, _)
matchLoop(samples, rows, threshold, i, sc) ==
    IF i > Len(rows) THEN sc
    ELSE matchLoop(samples, rows, threshold, i + 1,
                   accumulate(sc, findNearestDist(samples, rows[i]), threshold))

\* Matcher._match(knn, descriptors)
matchScore(samples, rows, threshold) == matchLoop(samples, rows, threshold, 1, 0)

\* match without its test of the extension
isDbFileAny(file) == TRUE

\* match's test of a listed file: ext == '.npy'
isDbFile(file) == splitextExt(file) = Ext_npy

\* match's loop over the listing from the i-th file on, up to its next
\* yield, the exception of np.load, or the end of the listing
RECURSIVE nextYield(_, _, _, _)
nextYield(db, i, samples, threshold) ==
    IF i > Len(db)
    THEN [status |-> "StopIteration", at |-> Len(db), pair |-> <<>>]
    ELSE IF isDbFile(db[i].name)
    THEN IF db[i].readable
         THEN [status |-> "yield", at |-> i,
               pair |-> <<db[i].name, matchScore(samples, db[i].rows, threshold)>>]
         ELSE [status |-> "IOError", at |-> i, pair |-> <<>>]
    ELSE nextYield(db, i + 1, samples, threshold)

\* the first two statements of match, run by the first next()
prepare(image, sz) ==
    LET d == getDescriptors(image, sz)
    IN  IF d.status # "ok" THEN [status |-> d.status, samples |-> <<>>]
        ELSE LET k == getKnn(d.descriptors)
             IN  IF k.status # "ok" THEN [status |-> "TypeError", samples |-> <<>>]
                 ELSE [status |-> "ok", samples |-> k.samples]

(***************************************************************************)
(* The values the specifications start from.                               *)
(***************************************************************************)
Rows == 0..MaxCoord
Collections(n) == UNION {[1..k -> Rows] : k \in 0..n}

\* listings of the input folder
InputFolders ==
    { <<Str_a_png, Str_b_png, Str_skip_png, Str_c_txt>>,
      <<Str_c_txt, Str_skip_png, Str_d_PNG>>,
      <<Str_skip_png, Str_b_png, Str_a_png>> }

\* orders in which the database folder lists its files
DbListings ==
    { <<>>, <<Str_a_npy>>, <<Str_c_txt>>, <<Str_dot_npy, Str_b_npy>>,
      <<Str_b_npy, Str_a_npy>>, <<Str_a_npy, Str_c_txt, Str_b_npy>> }

\* a file of the database folder: a persisted collection np.load can read,
\* or a file it cannot
DbFiles(name) ==
    IF isDbFile(name)
    THEN {[name |-> name, readable |-> TRUE, rows |-> r] : r \in Collections(MaxRows)}
         \cup {[name |-> name, readable |-> FALSE, rows |-> <<>>]}
    ELSE {[name |-> name, readable |-> FALSE, rows |-> <<>>]}

DbFolders ==
    UNION { {db \in [1..Len(l) -> UNION {DbFiles(l[i]) : i \in 1..Len(l)}] :
                \A i \in 1..Len(l) : db[i].name = l[i]} : l \in DbListings }

\* the file at imgpath: missing or undecodable, or an image with the rows
\* SURF computes for it
QueryImages(n) ==
    {[ok |-> FALSE, h |-> 1, w |-> 1, kp |-> <<>>]}
    \cup {[ok |-> TRUE, h |-> MaxSide, w |-> 1, kp |-> r] : r \in Collections(n)}

NoImage == [ok |-> FALSE, h |-> 1, w |-> 1, kp |-> <<>>]

(***************************************************************************)
(* Specification Spec: a folder of images, a database folder and a query   *)
(* image; the caller calls build, calls match and pulls from the generator.*)
(***************************************************************************)
Init ==
    /\ inputFolder \in InputFolders
    /\ dbfolder \in DbFolders
    /\ query \in QueryImages(MaxRows)
    /\ size = DefaultSize
    /\ distanceThreshold \in 0..MaxThreshold
    /\ buildStatus = "none"
    /\ mpc = "none" /\ merr = "" /\ mfile = 0 /\ knn = <<>> /\ results = <<>>
    /\ buildBeforeMatch = FALSE /\ outBefore = <<>>
    /\ descriptors = <<>> /\ h = 0 /\ score = 0 /\ spc = "returned"
    /\ img = <<>> /\ lpc = "none"

\* DatabaseBuilder(inputFolder, dbfolder, imageDescriptor).build()
Build ==
    /\ LET b == build(inputFolder, dbfolder)
       IN  /\ buildStatus' = b.status
           /\ dbfolder' = b.db
    /\ outBefore' = dbfolder
    /\ UNCHANGED <<inputFolder, query, size, distanceThreshold, mpc, merr, mfile,
                   knn, results, buildBeforeMatch, descriptors, h, score, spc,
                   img, lpc>>

\* Matcher(dbfolder, imageDescriptor, distanceThreshold).match(imgpath):
\* calling a generator function runs none of its body
MatchCall ==
    /\ mpc \in {"none", "done", "error"}
    /\ mpc' = "created" /\ merr' = "" /\ mfile' = 0 /\ knn' = <<>> /\ results' = <<>>
    /\ buildBeforeMatch' = (buildStatus # "none")
    /\ UNCHANGED <<inputFolder, dbfolder, query, size, distanceThreshold,
                   buildStatus, outBefore, descriptors, h, score, spc,
                   img, lpc>>

\* next() on the generator: from where it stands to its next yield, its
\* exception or its end
MatchNext ==
    /\ mpc \in {"created", "suspended"}
    /\ LET p == IF mpc = "created" THEN prepare(query, size)
                ELSE [status |-> "ok", samples |-> knn]
       IN  IF p.status # "ok"
           THEN /\ mpc' = "error" /\ merr' = p.status
                /\ UNCHANGED <<mfile, knn, results>>
           ELSE LET n == nextYield(dbfolder, mfile + 1, p.samples, distanceThreshold)
                IN  /\ knn' = p.samples
                    /\ mfile' = n.at
                    /\ mpc' = CASE n.status = "yield" -> "suspended"
                                [] n.status = "StopIteration" -> "done"
                                [] OTHER -> "error"
                    /\ merr' = IF n.status = "IOError" THEN "IOError" ELSE ""
                    /\ results' = IF n.status = "yield"
                                  THEN Append(results, n.pair) ELSE results
    /\ UNCHANGED <<inputFolder, dbfolder, query, size, distanceThreshold,
                   buildStatus, buildBeforeMatch, outBefore, descriptors, h,
                   score, spc, img, lpc>>

Next == Build \/ MatchCall \/ MatchNext

Spec == Init /\ [][Next]_vars


(***************************************************************************)
(* Specification SpecScore: one call of Matcher._match, one iteration of   *)
(* its for loop per step, on every trained kNN, persisted collection and   *)
(* threshold within the bounds.                                            *)
(***************************************************************************)
InitScore ==
    /\ knn \in Collections(MaxLen) \ {<<>>}
    /\ descriptors \in Collections(MaxLen)
    /\ distanceThreshold \in 0..MaxThreshold
    /\ h = 0 /\ score = 0 /\ spc = "loop"
    /\ inputFolder = <<>> /\ dbfolder = <<>> /\ query = NoImage
    /\ size = DefaultSize /\ buildStatus = "none"
    /\ mpc = "none" /\ merr = "" /\ mfile = 0 /\ results = <<>>
    /\ buildBeforeMatch = FALSE /\ outBefore = <<>>
    /\ img = <<>> /\ lpc = "none"

\* one iteration of for h,des in enumerate(descriptors)
ScoreIter ==
    /\ spc = "loop" /\ h < Len(descriptors)
    /\ score' = accumulate(score, findNearestDist(knn, descriptors[h + 1]),
                           distanceThreshold)
    /\ h' = h + 1
    /\ UNCHANGED <<inputFolder, dbfolder, query, size, distanceThreshold,
                   buildStatus, mpc, merr, mfile, knn, results, buildBeforeMatch,
                   outBefore, descriptors, spc, img, lpc>>

\* return score
ScoreReturn ==
    /\ spc = "loop" /\ h = Len(descriptors)
    /\ spc' = "returned"
    /\ UNCHANGED <<inputFolder, dbfolder, query, size, distanceThreshold,
                   buildStatus, mpc, merr, mfile, knn, results, buildBeforeMatch,
                   outBefore, descriptors, h, score, img, lpc>>

NextScore == ScoreIter \/ ScoreReturn

SpecScore == InitScore /\ [][NextScore]_vars

(***************************************************************************)
(* Specification SpecLoad: one call of ImageDescriptor._load on every      *)
(* image file and size within the bounds.                                  *)
(***************************************************************************)
InitLoad ==
    /\ query \in [ok : BOOLEAN, h : 1..MaxSide, w : 1..MaxSide, kp : {<<>>}]
    /\ size \in 1..MaxSize
    /\ img = <<>> /\ lpc = "none"
    /\ inputFolder = <<>> /\ dbfolder = <<>> /\ distanceThreshold = 0
    /\ buildStatus = "none"
    /\ mpc = "none" /\ merr = "" /\ mfile = 0 /\ knn = <<>> /\ results = <<>>
    /\ buildBeforeMatch = FALSE /\ outBefore = <<>>
    /\ descriptors = <<>> /\ h = 0 /\ score = 0 /\ spc = "returned"

\* ImageDescriptor(surfExtractor, size)._load(path)
LoadCall ==
    /\ lpc = "none"
    /\ LET l == load(query, size)
       IN  /\ lpc' = l.status
           /\ img' = l.shape
    /\ UNCHANGED <<inputFolder, dbfolder, query, size, distanceThreshold,
                   buildStatus, mpc, merr, mfile, knn, results, buildBeforeMatch,
                   outBefore, descriptors, h, score, spc>>

NextLoad == LoadCall

SpecLoad == InitLoad /\ [][NextLoad]_vars


(***************************************************************************)
(* Vocabulary of the properties.                                           *)
(***************************************************************************)
\* the name np.save(outPath, ...) gives the file it writes for a source file
EntryName(file) == file \o Ext_npy

HasEntry(db, file) ==
    \E j \in 1..Len(db) : db[j].name = EntryName(file) /\ db[j].readable

EligibleFiles == {i \in 1..Len(inputFolder) : eligible(inputFolder[i])}

\* a file whose name is a non-empty stem followed by .npy
NpyFile(name) ==
    Len(name) > 4 /\ SubSeq(name, Len(name) - 3, Len(name)) = Ext_npy

IsCollection(f) == NpyFile(f.name)
IsReadableCollection(f) == NpyFile(f.name) /\ f.readable

Names(fs) == [i \in 1..Len(fs) |-> fs[i].name]
ResultNames == [i \in 1..Len(results) |-> results[i][1]]

ValidQuery == query.ok /\ query.kp # <<>>
AllReadable == \A j \in 1..Len(dbfolder) : NpyFile(dbfolder[j].name) => dbfolder[j].readable
AllScoresZero == \A k \in 1..Len(results) : results[k][2] = 0
MatchStarted == mpc \in {"suspended", "done", "error"}
MatchEnded == mpc \in {"done", "error"}

\* the claimed score: every row at distance d < threshold counts threshold - d
RECURSIVE WeightedCount(_, _, _, _)
WeightedCount(samples, rows, threshold, d) ==
    IF d >= threshold THEN 0
    ELSE (threshold - d)
            * Cardinality({i \in 1..Len(rows) : findNearestDist(samples, rows[i]) = d})
         + WeightedCount(samples, rows, threshold, d + 1)

(***************************************************************************)
(* The properties.                                                         *)
(***************************************************************************)
\* C1: after build of an input folder into an empty output folder, build has
\* returned and the output folder holds an entry for exactly the files whose
\* name does not begin with '_' and whose extension is in SUPPORTED_EXTS.
C1_BuildPersistsEligible ==
    (buildStatus # "none" /\ outBefore = <<>>) =>
        /\ buildStatus = "returned"
        /\ \A i \in 1..Len(inputFolder) :
              eligible(inputFolder[i]) <=> HasEntry(dbfolder, inputFolder[i])
        /\ Len(dbfolder) = Cardinality(EligibleFiles)

\* C2: at every point of _match's loop the score is the sum, over the rows
\* visited whose nearest-neighbour distance is strictly below the threshold,
\* of threshold - distance; the other rows contribute 0.
C2_ScoreIsGatedSum ==
    /\ h \in 0..Len(descriptors)
    /\ score = WeightedCount(knn, SubSeq(descriptors, 1, h), distanceThreshold, 0)

\* C2 witness: _match has returned a positive score for a collection of which
\* one row is below the threshold and one row is exactly at it.
C2_Witness ==
    /\ spc = "returned" /\ Len(descriptors) >= 2 /\ score > 0
    /\ \E i \in 1..Len(descriptors) :
          findNearestDist(knn, descriptors[i]) = distanceThreshold
    /\ \E i \in 1..Len(descriptors) :
          findNearestDist(knn, descriptors[i]) < distanceThreshold

\* C3: for a query image without keypoints, match raises no error and every
\* pair it yields has score 0.
C3_EmptyQueryScoresZero ==
    (query.ok /\ query.kp = <<>> /\ MatchStarted) =>
        /\ mpc # "error"
        /\ AllScoresZero
        /\ (mpc = "done" => Len(results) = Len(SelectSeq(dbfolder, IsCollection)))

\* C4: with a valid query, a collection that cannot be read is skipped: the
\* generator ends normally, having yielded a pair for every readable one.
C4_UnreadableEntrySkipped ==
    (ValidQuery /\ MatchEnded) =>
        /\ mpc = "done"
        /\ ResultNames = Names(SelectSeq(dbfolder, IsReadableCollection))

\* C5: when the query image is missing or undecodable, no pair is ever
\* yielded, and the first next() ends the generator with the error of _load.
C5_QueryErrorBeforeResults ==
    ~query.ok =>
        /\ results = <<>>
        /\ (MatchStarted => mpc = "error" /\ merr = "AttributeError")

\* C5 witness: the generator has ended with the load error although the
\* database folder holds a readable collection.
C5_Witness ==
    /\ ~query.ok /\ mpc = "error" /\ merr = "AttributeError"
    /\ \E j \in 1..Len(dbfolder) : IsReadableCollection(dbfolder[j])

\* C6: the image _load returns has round(H*S/max(H,W)) rows and
\* round(W*S/max(H,W)) columns.
C6_LoadKeepsOrientation ==
    lpc = "loaded" =>
        LET longest == IF query.h >= query.w THEN query.h ELSE query.w
        IN  img = <<RoundDiv(query.h * size, longest),
                    RoundDiv(query.w * size, longest)>>

\* C7: every next() either ends the generator or yields one more pair for a
\* file further down the listing, so the generator ends after at most one
\* next() per listed file and one more; with a valid query and readable
\* collections it does not end in an error; and when it is exhausted the
\* names yielded are those of the .npy files, each once, in listing order.
C7_ExhaustionYieldsEachCollectionOnce ==
    [][ /\ (mpc' = "done" =>
               ResultNames' = Names(SelectSeq(dbfolder', IsCollection)))
        /\ ((ValidQuery' /\ AllReadable') => mpc' # "error")
        /\ ((mpc \in {"created", "suspended"}
                /\ <<mpc, mfile, results>>' # <<mpc, mfile, results>>) =>
               \/ mpc' \in {"done", "error"}
               \/ /\ mpc' = "suspended"
                  /\ mfile < mfile' /\ mfile' <= Len(dbfolder)
                  /\ Len(results') = Len(results) + 1) ]_vars

\* C7 witness: the generator is exhausted after yielding for two collections
\* listed around a file that is none, the lower score first.
C7_Witness ==
    /\ mpc = "done" /\ Len(results) = 2 /\ Len(dbfolder) = 3
    /\ results[1][2] < results[2][2]

\* C8: with distanceThreshold = 0 and readable collections, match raises no
\* error whatever the query's descriptors are, and every score is 0.
C8_ZeroThresholdScoresZero ==
    (distanceThreshold = 0 /\ query.ok /\ AllReadable /\ MatchStarted) =>
        /\ mpc # "error"
        /\ AllScoresZero

\* C9: no step removes or alters a file of the database folder, and a step
\* of match leaves the database folder, the input folder and the query image
\* as they are.
C9_NoEntryDeleted ==
    [][ /\ \A i \in 1..Len(dbfolder) :
              \E j \in 1..Len(dbfolder') : dbfolder'[j] = dbfolder[i]
        /\ (<<mpc, mfile, results>>' # <<mpc, mfile, results>> =>
               /\ dbfolder' = dbfolder
               /\ inputFolder' = inputFolder
               /\ query' = query) ]_vars

\* C9 witness: a build and an exhausted match have run on a database folder
\* holding an entry that no file of the input folder accounts for.
C9_Witness ==
    /\ buildStatus # "none" /\ mpc = "done" /\ results # <<>>
    /\ \E j \in 1..Len(dbfolder) :
          \A i \in 1..Len(inputFolder) : dbfolder[j].name # EntryName(inputFolder[i])

\* C10: a match of a valid query called after a build into an empty output
\* folder runs to exhaustion and yields exactly one pair per eligible input
\* file, under the name build gave its entry.
C10_BuildThenMatch ==
    (buildBeforeMatch /\ outBefore = <<>> /\ ValidQuery /\ MatchEnded) =>
        /\ mpc = "done"
        /\ Len(results) = Cardinality(EligibleFiles)
        /\ \A i \in EligibleFiles :
              \E k \in 1..Len(results) : results[k][1] = EntryName(inputFolder[i])

=============================================================================
